---- MODULE Spec2Model ----
(***************************************************************************)
(* Verification model of the resilience and persistence examples of the    *)
(* pymaster corpus:                                                        *)
(*   python/46_circuit_breaker.py          CircuitBreaker.call             *)
(*   python/47_rate_limiter_token_bucket.py TokenBucket.allow              *)
(*   10_retries_and_backoff.py             with_retries                    *)
(*   python/45_idempotency_keys.py         process_order                   *)
(*   python/44_sqlite_transactions.py      transfer                        *)
(*   python/21_invariants_and_properties.py BankAccount                    *)
(*   python/05_pytest_unit_tests.py        calculate_total                 *)
(*   python/48_feature_flags_rollout.py    is_enabled                      *)
(*   python/18_threadpool_concurrency.py   fetch_many                      *)
(*   pandas/33_time_series_split_train_test.py time_split                  *)
(*   python/09_asyncio_basics.py           price_all                       *)
(* Each script is independent of the others, so each has a specification   *)
(* of its own over its own variables; the variables of the other scripts   *)
(* stay at their idle values.  Times, delays and token amounts are         *)
(* integers (a fixed number of clock quanta / token quanta).               *)
(***************************************************************************)
EXTENDS Integers, Sequences, FiniteSets, TLC

VARIABLES
    clock,              \* the value time.time() returns, in quanta
    \* ---- CircuitBreaker (46_circuit_breaker.py)
    failure_threshold,  \* CircuitBreaker.failure_threshold
    cooldown_s,         \* CircuitBreaker.cooldown_s
    failures,           \* CircuitBreaker._failures
    opened_at,          \* CircuitBreaker._opened_at (None or a time)
    streak,             \* history: func invocations that raised in a row since func
                        \* last returned or the circuit last half-opened
    cb_calls,           \* history: number of call() made
    probe_failed_at,    \* history: when the latest call() was a half-open probe
                        \* that raised, the time it ended (else None)
    cb_last,            \* history: what the latest call() saw and did
    \* ---- TokenBucket (47_rate_limiter_token_bucket.py)
    capacity,           \* TokenBucket.capacity
    refill_rate_per_s,  \* TokenBucket.refill_rate_per_s
    tokens,             \* TokenBucket._tokens (None or an amount)
    last,               \* TokenBucket._last (None or a time)
    t0,                 \* history: time of the first allow()
    admitted,           \* history: total cost of the calls that returned True
    tb_last,            \* history: cost and result of the latest allow()
    \* ---- with_retries (10_retries_and_backoff.py)
    attempts,           \* with_retries parameter attempts
    base_delay,         \* with_retries parameter base_delay
    max_delay,          \* with_retries parameter max_delay
    attempt,            \* the loop variable of with_retries
    r_status,           \* where the call is: "ready", "running", "returned" or the exception raised
    r_ret,              \* the value with_retries returned
    r_log,              \* history: func invocations and sleeps, in order
    \* ---- process_order (45_idempotency_keys.py)
    idem_table,         \* the rows of table idempotency: (key, ok, message)
    po_pc,              \* per caller: where its process_order call is
    po_args,            \* per caller: idem_key and order_id of its call
    po_result,          \* per caller: the local variable result
    po_ret,             \* per caller: the Result its call returned
    side_effects,       \* history: per key, how often the order was processed
    first_result,       \* history: per key, the Result the first call with it returned
    po_calls,           \* history: number of process_order calls started
    po_last,            \* history: what the latest completed call saw and did
    \* ---- transfer (44_sqlite_transactions.py)
    db,                 \* table accounts as the connection sees it: id -> balance
    db_committed,       \* table accounts as of the last commit
    tr_last,            \* history: what the latest transfer() saw and did
    \* ---- BankAccount (21_invariants_and_properties.py)
    balance_cents,      \* BankAccount._balance_cents
    ba_status,          \* "unbuilt", "live", or "ValueError" when __post_init__ raised
    ba_last,            \* history: the latest deposit() or withdraw()
    \* ---- calculate_total (05_pytest_unit_tests.py)
    ct_item,            \* the LineItem passed: price (in cents) and qty
    ct_tax,             \* the tax passed, in percent
    ct_out,             \* what calculate_total did: the total returned or the error raised
    \* ---- is_enabled (48_feature_flags_rollout.py)
    ff_flag,            \* the FeatureFlag: enabled and rollout_percent
    ff_last,            \* history: the latest is_enabled(): first digest byte and result
    \* ---- fetch_many (18_threadpool_concurrency.py)
    fm_user_ids,        \* the argument user_ids
    fm_pc,              \* where fetch_many is: "submit", "collect", "shutdown", "returned"
    fm_future,          \* per submitted position: "queued", "running" or "done"
    fm_value,           \* per submitted position: the result of its future
    fm_early,           \* as_completed: futures found finished when it started, not yet yielded
    fm_notified,        \* as_completed: futures that finished since, in that order, not yet yielded
    fm_results,         \* the local list results
    fm_ret,             \* the list fetch_many returned
    fm_completion,      \* history: positions in the order their futures finished
    fm_yielded,         \* history: positions in the order as_completed yielded them
    fm_first,           \* history: the futures found finished when as_completed started
    \* ---- time_split (pandas/33_time_series_split_train_test.py)
    ts_df,              \* the argument df: rows (index timestamp, ret), in order
    ts_split_date,      \* the argument split_date: a date (month, day) of 2026
    ts_train,           \* the frame train returned: rows of df with their position
    ts_test,            \* the frame test returned
    ts_pc,              \* "ready" before the call, "returned" after it
    ts_df_before,       \* history: df as it was when time_split was called
    \* ---- price_all (09_asyncio_basics.py)
    pa_products,        \* the argument products: (sku, base_price in cents), in order
    pa_task,            \* per product: its price_with_discount task: "created", "awaiting", "done"
    pa_pairs,           \* the result list of asyncio.gather: per product the pair returned
    pa_pc,              \* "gather" while price_all awaits, then "returned"
    pa_ret,             \* the dict price_all returned (sku -> price in cents)
    pa_completion       \* history: products in the order their fetch_discount completed

cbVars == <<failure_threshold, cooldown_s, failures, opened_at, streak, cb_calls,
            probe_failed_at, cb_last>>
tbVars == <<capacity, refill_rate_per_s, tokens, last, t0, admitted, tb_last>>
rVars == <<attempts, base_delay, max_delay, attempt, r_status, r_ret, r_log>>
poVars == <<idem_table, po_pc, po_args, po_result, po_ret, side_effects,
            first_result, po_calls, po_last>>
trVars == <<db, db_committed, tr_last>>
baVars == <<balance_cents, ba_status, ba_last>>
ctVars == <<ct_item, ct_tax, ct_out>>
ffVars == <<ff_flag, ff_last>>
fmVars == <<fm_user_ids, fm_pc, fm_future, fm_value, fm_early, fm_notified,
            fm_results, fm_ret, fm_completion, fm_yielded, fm_first>>
tsVars == <<ts_df, ts_split_date, ts_train, ts_test, ts_pc, ts_df_before>>
paVars == <<pa_products, pa_task, pa_pairs, pa_pc, pa_ret, pa_completion>>
restVars == <<baVars, ctVars, ffVars, fmVars, tsVars, paVars>>
vars == <<clock, cbVars, tbVars, rVars, poVars, trVars, restVars>>

\* Python's None, for the fields that hold None or a number.
None == -1

Min(a, b) == IF a <= b THEN a ELSE b

(***************************************************************************)
(* Bounds of the model.                                                    *)
(***************************************************************************)
MaxTime == 6            \* the clock runs over 0..MaxTime
MaxThreshold == 3       \* failure_threshold ranges over 1..MaxThreshold
MaxCooldown == 2        \* cooldown_s ranges over 0..MaxCooldown
MaxFuncDur == 1         \* a func invocation lasts 0..MaxFuncDur quanta
MaxCalls == 6           \* call() is made at most MaxCalls times
MaxCapacity == 2        \* capacity ranges over 0..MaxCapacity
MaxRate == 2            \* refill_rate_per_s ranges over 0..MaxRate
MaxCost == 2            \* cost ranges over 1..MaxCost
MaxAttempts == 3        \* attempts ranges over 0..MaxAttempts
MaxBaseDelay == 4       \* base_delay ranges over 0..MaxBaseDelay
MaxMaxDelay == 8        \* max_delay ranges over 0..MaxMaxDelay
NumCallers == 2         \* callers of process_order are 1..NumCallers
NumOrders == 2          \* order ids are 100..100+NumOrders-1
MaxOrderCalls == 6      \* process_order is called at most MaxOrderCalls times
NumAccounts == 2        \* accounts 1..NumAccounts exist
MaxBalance == 3         \* initial balances range over 0..MaxBalance
MaxAmount == 2          \* amount ranges over -1..MaxAmount
MaxInitialCents == 2    \* BankAccount is built with -1..MaxInitialCents cents
MaxHalfCents == 7       \* deposit/withdraw amounts are -1..MaxHalfCents half cents
MaxCents == 15          \* deposits stop when the balance would pass MaxCents
MaxPriceCents == 3      \* item.price ranges over -1..MaxPriceCents cents
MaxQty == 3             \* item.qty ranges over -1..MaxQty
MaxTaxPercent == 2      \* tax ranges over -1..MaxTaxPercent percent
MaxPercent == 101       \* rollout_percent ranges over -1..MaxPercent
NumUsers == 5           \* fetch_many is given 0..NumUsers user ids
MaxRows == 3            \* df has 0..MaxRows rows
NumProducts == 3        \* price_all is given 0..NumProducts products

\* What a func given to CircuitBreaker.call can return.
Values == {"ok", "pong"}

(***************************************************************************)
(* The clock: time.time() is read by call() and allow(); it never runs     *)
(* backwards.                                                              *)
(***************************************************************************)
Tick ==
    /\ clock < MaxTime
    /\ clock' = clock + 1
    /\ UNCHANGED <<cbVars, tbVars, rVars, poVars, trVars, restVars>>

(***************************************************************************)
(* CircuitBreaker                                                          *)
(***************************************************************************)
CBIdle ==
    /\ failure_threshold = 1
    /\ cooldown_s = 0
    /\ failures = 0
    /\ opened_at = None
    /\ streak = 0
    /\ cb_calls = 0
    /\ probe_failed_at = None
    /\ cb_last = [kind |-> "none"]

\* CircuitBreaker(failure_threshold=.., cooldown_s=..): _failures = 0, _opened_at = None
CBInit ==
    /\ failure_threshold \in 1..MaxThreshold
    /\ cooldown_s \in 0..MaxCooldown
    /\ failures = 0
    /\ opened_at = None
    /\ streak = 0
    /\ cb_calls = 0
    /\ probe_failed_at = None
    /\ cb_last = [kind |-> "none"]

\* line 35: now - self._opened_at < self.cooldown_s
InCooldownLate(now, opened) == now - opened <= cooldown_s
InCooldownNever(now, opened) == now - opened > cooldown_s
InCooldown(now, opened) == now - opened < cooldown_s

\* line 45: self._failures >= self.failure_threshold
ReachedThresholdStrict(f) == f > failure_threshold
ReachedThreshold(f) == f >= failure_threshold

\* lines 34-36: the circuit is open and the cooldown has not elapsed
Rejects(now) == opened_at # None /\ InCooldown(now, opened_at)

\* lines 37-39: the failure count a call that is let through starts from
\* (a half-open probe clears the opening time and the count first)
AdmittedFailures == IF opened_at # None THEN 0 ELSE failures

\* call(func).  res is what func does when it is invoked: "raise", or the
\* value it returns; dur is how long func runs, so that the time.time() of
\* line 46 is dur later than the one of line 33.
call(res, dur) ==
    /\ cb_calls < MaxCalls
    /\ clock + dur <= MaxTime
    /\ cb_calls' = cb_calls + 1
    /\ LET now == clock
           pre == [now |-> now, failures |-> failures, opened_at |-> opened_at,
                   streak |-> streak, probe_failed_at |-> probe_failed_at]
       IN IF Rejects(now)
          THEN \* line 36: raise CircuitOpenError, func is not invoked
               /\ cb_last' = [kind |-> "CircuitOpenError", invoked |-> FALSE,
                              func |-> "none", value |-> "none", pre |-> pre]
               /\ probe_failed_at' = None
               /\ UNCHANGED <<clock, failures, opened_at, streak>>
          ELSE /\ clock' = clock + dur
               /\ IF res = "raise"
                  THEN \* lines 43-47
                       /\ failures' = AdmittedFailures + 1
                       /\ opened_at' = IF ReachedThreshold(AdmittedFailures + 1)
                                       THEN clock + dur ELSE None
                       /\ streak' = (IF opened_at # None THEN 0 ELSE streak) + 1
                       /\ probe_failed_at' = IF opened_at # None THEN clock + dur ELSE None
                       /\ cb_last' = [kind |-> "raised", invoked |-> TRUE,
                                      func |-> res, value |-> "none", pre |-> pre]
                  ELSE \* lines 49-50
                       /\ failures' = 0
                       /\ opened_at' = None
                       /\ streak' = 0
                       /\ probe_failed_at' = None
                       /\ cb_last' = [kind |-> "returned", invoked |-> TRUE,
                                      func |-> res, value |-> res, pre |-> pre]
    /\ UNCHANGED <<failure_threshold, cooldown_s, tbVars, rVars, poVars, trVars, restVars>>

(***************************************************************************)
(* TokenBucket                                                             *)
(***************************************************************************)
TBIdle ==
    /\ capacity = 0
    /\ refill_rate_per_s = 0
    /\ tokens = None
    /\ last = None
    /\ t0 = None
    /\ admitted = 0
    /\ tb_last = [kind |-> "none"]

\* TokenBucket(capacity=.., refill_rate_per_s=..): _tokens = None, _last = None
TBInit ==
    /\ capacity \in 0..MaxCapacity
    /\ refill_rate_per_s \in 0..MaxRate
    /\ tokens = None
    /\ last = None
    /\ t0 = None
    /\ admitted = 0
    /\ tb_last = [kind |-> "none"]

\* line 29: min(self.capacity, self._tokens + elapsed * self.refill_rate_per_s)
Refill(tok, elapsed) == Min(capacity, tok + elapsed * refill_rate_per_s)

\* line 32: cost <= self._tokens
CanAffordCapacity(cost, tok) == cost <= capacity
CanAfford(cost, tok) == cost <= tok

\* allow(cost)
allow(cost) ==
    LET now == clock
        first == tokens = None
        tok0 == IF first THEN capacity ELSE tokens      \* lines 23-24
        last0 == IF first THEN now ELSE last            \* line 25
        tok1 == Refill(tok0, now - last0)               \* lines 28-29
    IN /\ last' = now                                   \* line 30
       /\ t0' = IF first THEN now ELSE t0
       /\ IF CanAfford(cost, tok1)
          THEN /\ tokens' = tok1 - cost                 \* lines 33-34
               /\ admitted' = admitted + cost
               /\ tb_last' = [kind |-> "allow", cost |-> cost, ret |-> TRUE]
          ELSE /\ tokens' = tok1                        \* line 35
               /\ admitted' = admitted
               /\ tb_last' = [kind |-> "allow", cost |-> cost, ret |-> FALSE]
       /\ UNCHANGED <<clock, capacity, refill_rate_per_s, cbVars, rVars, poVars, trVars, restVars>>

(***************************************************************************)
(* with_retries                                                            *)
(***************************************************************************)
\* What one invocation of func does: it returns a value, or raises a
\* TransientError, a PermanentError or an exception of another class.
FuncOutcomes == Values \cup {"TransientError", "PermanentError", "OtherError"}

RIdle ==
    /\ attempts = 0
    /\ base_delay = 0
    /\ max_delay = 0
    /\ attempt = 0
    /\ r_status = "idle"
    /\ r_ret = "none"
    /\ r_log = <<>>

\* a call with_retries(func, attempts=.., base_delay=.., max_delay=..) about to start
RInit ==
    /\ attempts \in 0..MaxAttempts
    /\ base_delay \in 0..MaxBaseDelay
    /\ max_delay \in 0..MaxMaxDelay
    /\ attempt = 0
    /\ r_status = "ready"
    /\ r_ret = "none"
    /\ r_log = <<>>

\* line 44: range(1, attempts + 1) starts at 1
FirstAttemptZero == 0
FirstAttempt == 1

\* line 29: min(base_delay * (2 ** (attempt - 1)), max_delay).  The product
\* is computed as base * 2^a / 2, which is the same amount for a >= 1 and
\* is defined for a = 0 as well (2 ** -1 is 0.5; rounded down to a quantum).
capped_delay(a, base, max) == Min((base * (2 ^ a)) \div 2, max)

\* line 30: random.uniform(0, delay * 0.25) draws any amount j with
\* 0 <= j <= delay * 0.25
Jitters(delay) == {j \in 0..delay : 4 * j <= delay}

\* lines 28-31: compute_backoff_delay, j the jitter that was drawn
compute_backoff_delay(a, base, max, j) == capped_delay(a, base, max) + j

\* line 50: except TransientError
CaughtAsAnyException(res) == res \notin Values
CaughtAsTransient(res) == res = "TransientError"

\* lines 41-42: the check of attempts, and entry into the loop
with_retries_enter ==
    /\ r_status = "ready"
    /\ IF attempts < 1
       THEN /\ r_status' = "ValueError"
            /\ UNCHANGED attempt
       ELSE /\ r_status' = "running"
            /\ attempt' = FirstAttempt
    /\ UNCHANGED <<attempts, base_delay, max_delay, r_ret, r_log>>
    /\ UNCHANGED <<clock, cbVars, tbVars, poVars, trVars, restVars>>

\* lines 44-56: one iteration of the loop.  res is what this invocation of
\* func does, j the jitter random.uniform draws if the iteration sleeps.
\* The last iteration (attempt = attempts) returns or raises, so the loop
\* never runs out and line 58 is not reached.
with_retries_attempt(res, j) ==
    /\ r_status = "running"
    /\ attempt <= attempts                                        \* line 44
    /\ IF res \in Values
       THEN \* line 46: return func()
            /\ r_status' = "returned"
            /\ r_ret' = res
            /\ r_log' = Append(r_log, <<"call", res>>)
            /\ UNCHANGED attempt
       ELSE IF res = "PermanentError"
       THEN \* lines 47-49
            /\ r_status' = "PermanentError"
            /\ r_log' = Append(r_log, <<"call", res>>)
            /\ UNCHANGED <<attempt, r_ret>>
       ELSE IF CaughtAsTransient(res)
       THEN IF attempt = attempts
            THEN \* lines 51-52
                 /\ r_status' = "RuntimeError"
                 /\ r_log' = Append(r_log, <<"call", res>>)
                 /\ UNCHANGED <<attempt, r_ret>>
            ELSE \* lines 54-56
                 /\ j \in Jitters(capped_delay(attempt, base_delay, max_delay))
                 /\ r_log' = r_log \o
                       << <<"call", res>>,
                          <<"sleep", compute_backoff_delay(attempt, base_delay, max_delay, j)>> >>
                 /\ attempt' = attempt + 1
                 /\ UNCHANGED <<r_status, r_ret>>
       ELSE \* no except clause matches: the exception propagates
            /\ r_status' = res
            /\ r_log' = Append(r_log, <<"call", res>>)
            /\ UNCHANGED <<attempt, r_ret>>
    /\ UNCHANGED <<attempts, base_delay, max_delay>>
    /\ UNCHANGED <<clock, cbVars, tbVars, poVars, trVars, restVars>>

(***************************************************************************)
(* process_order with idempotency keys                                     *)
(***************************************************************************)
Keys == {"k1", "k2"}
OrderIds == 100..(100 + NumOrders - 1)
Callers == 1..NumCallers

\* get_cached's None
NoResult == [ok |-> FALSE, message |-> <<>>]

\* line 53: Result(ok=True, message=f"processed order {order_id}")
MakeResult(order_id) == [ok |-> TRUE, message |-> <<"processed order ", order_id>>]

\* line 42: int(result.ok)
IntOfBool(b) == IF b THEN 1 ELSE 0
\* line 36: bool(row[0])
BoolOfInt(i) == i # 0

RowsOf(table, key) == {row \in table : row.key = key}

\* lines 32-36: get_cached: SELECT ok, message ... WHERE key=?, fetchone()
get_cached_miss(table, key) == NoResult
get_cached(table, key) ==
    IF RowsOf(table, key) = {}
    THEN NoResult
    ELSE LET row == CHOOSE r \in RowsOf(table, key) : TRUE
         IN [ok |-> BoolOfInt(row.ok), message |-> row.message]

\* line 27: key TEXT PRIMARY KEY: an INSERT of a key that has a row fails
ViolatesPrimaryKey(table, key) == RowsOf(table, key) # {}

\* lines 39-44: put_cached: the table after the INSERT and the commit
put_cached(table, key, result) ==
    table \cup {[key |-> key, ok |-> IntOfBool(result.ok), message |-> result.message]}

POIdle ==
    /\ idem_table = {}
    /\ po_pc = [p \in Callers |-> "off"]
    /\ po_args = [p \in Callers |-> [key |-> "k1", order_id |-> 100]]
    /\ po_result = [p \in Callers |-> NoResult]
    /\ po_ret = [p \in Callers |-> NoResult]
    /\ side_effects = [k \in Keys |-> 0]
    /\ first_result = [k \in Keys |-> NoResult]
    /\ po_calls = 0
    /\ po_last = [kind |-> "none"]

\* lines 59-60: a connection with the schema created and no rows
POInit ==
    /\ idem_table = {}
    /\ po_pc = [p \in Callers |-> "idle"]
    /\ po_args = [p \in Callers |-> [key |-> "k1", order_id |-> 100]]
    /\ po_result = [p \in Callers |-> NoResult]
    /\ po_ret = [p \in Callers |-> NoResult]
    /\ side_effects = [k \in Keys |-> 0]
    /\ first_result = [k \in Keys |-> NoResult]
    /\ po_calls = 0
    /\ po_last = [kind |-> "none"]

\* lines 47-55: process_order(conn, idem_key, order_id), run to completion
\* (calls made one after the other on one connection)
process_order(idem_key, order_id) ==
    /\ po_calls < MaxOrderCalls
    /\ po_calls' = po_calls + 1
    /\ LET cached == get_cached(idem_table, idem_key)
           result == MakeResult(order_id)
           pre == [table |-> idem_table, seen |-> first_result[idem_key] # NoResult]
       IN IF cached # NoResult
          THEN \* lines 49-50
               /\ po_last' = [kind |-> "returned", key |-> idem_key, order_id |-> order_id,
                              ret |-> cached, pre |-> pre]
               /\ first_result' = IF pre.seen THEN first_result
                                  ELSE [first_result EXCEPT ![idem_key] = cached]
               /\ UNCHANGED <<idem_table, side_effects>>
          ELSE \* lines 52-55
               /\ side_effects' = [side_effects EXCEPT ![idem_key] = @ + 1]
               /\ IF ViolatesPrimaryKey(idem_table, idem_key)
                  THEN /\ po_last' = [kind |-> "IntegrityError", key |-> idem_key,
                                      order_id |-> order_id, ret |-> NoResult, pre |-> pre]
                       /\ UNCHANGED <<idem_table, first_result>>
                  ELSE /\ idem_table' = put_cached(idem_table, idem_key, result)
                       /\ po_last' = [kind |-> "returned", key |-> idem_key,
                                      order_id |-> order_id, ret |-> result, pre |-> pre]
                       /\ first_result' = IF pre.seen THEN first_result
                                          ELSE [first_result EXCEPT ![idem_key] = result]
    /\ UNCHANGED <<po_pc, po_args, po_result, po_ret>>
    /\ UNCHANGED <<clock, cbVars, tbVars, rVars, trVars, restVars>>

\* The same function when calls interleave on one database: each statement
\* is a step.  lines 48-50: the lookup, and the return of a stored Result
po_lookup(p, idem_key, order_id) ==
    /\ po_pc[p] \in {"idle", "returned", "IntegrityError"}    \* no call of p is running
    /\ po_calls < MaxOrderCalls
    /\ po_calls' = po_calls + 1
    /\ po_args' = [po_args EXCEPT ![p] = [key |-> idem_key, order_id |-> order_id]]
    /\ LET cached == get_cached(idem_table, idem_key)
       IN IF cached # NoResult
          THEN /\ po_pc' = [po_pc EXCEPT ![p] = "returned"]
               /\ po_ret' = [po_ret EXCEPT ![p] = cached]
          ELSE /\ po_pc' = [po_pc EXCEPT ![p] = "process"]
               /\ po_ret' = [po_ret EXCEPT ![p] = NoResult]
    /\ UNCHANGED <<idem_table, po_result, side_effects, first_result, po_last>>
    /\ UNCHANGED <<clock, cbVars, tbVars, rVars, trVars, restVars>>

\* lines 52-53: the side effect, and its Result
po_side_effect(p) ==
    /\ po_pc[p] = "process"
    /\ side_effects' = [side_effects EXCEPT ![po_args[p].key] = @ + 1]
    /\ po_result' = [po_result EXCEPT ![p] = MakeResult(po_args[p].order_id)]
    /\ po_pc' = [po_pc EXCEPT ![p] = "store"]
    /\ UNCHANGED <<idem_table, po_args, po_ret, first_result, po_calls, po_last>>
    /\ UNCHANGED <<clock, cbVars, tbVars, rVars, trVars, restVars>>

\* lines 54-55: put_cached and the return; the INSERT raises
\* sqlite3.IntegrityError when the key has a row by now
po_store(p) ==
    /\ po_pc[p] = "store"
    /\ IF ViolatesPrimaryKey(idem_table, po_args[p].key)
       THEN /\ po_pc' = [po_pc EXCEPT ![p] = "IntegrityError"]
            /\ UNCHANGED <<idem_table, po_ret>>
       ELSE /\ idem_table' = put_cached(idem_table, po_args[p].key, po_result[p])
            /\ po_pc' = [po_pc EXCEPT ![p] = "returned"]
            /\ po_ret' = [po_ret EXCEPT ![p] = po_result[p]]
    /\ UNCHANGED <<po_args, po_result, side_effects, first_result, po_calls, po_last>>
    /\ UNCHANGED <<clock, cbVars, tbVars, rVars, trVars, restVars>>

(***************************************************************************)
(* transfer inside a sqlite3 transaction                                   *)
(***************************************************************************)
AccountIds == 1..NumAccounts
\* ids a caller passes: the accounts and one id that has no row
PassedIds == 1..(NumAccounts + 1)

TRIdle ==
    /\ db = [a \in AccountIds |-> 0]
    /\ db_committed = [a \in AccountIds |-> 0]
    /\ tr_last = [kind |-> "none"]

\* lines 44-48: the accounts are inserted and committed
TRInit ==
    /\ db \in [AccountIds -> 0..MaxBalance]
    /\ db_committed = db
    /\ tr_last = [kind |-> "none"]

\* lines 32-33: SELECT balance FROM accounts WHERE id=?, fetchone()
select_balance(accounts, id) == IF id \in DOMAIN accounts THEN accounts[id] ELSE None

\* lines 39-40: UPDATE accounts SET balance = balance + ? WHERE id=?
update_balance(accounts, id, delta) ==
    [a \in DOMAIN accounts |-> IF a = id THEN accounts[a] + delta ELSE accounts[a]]

\* lines 18-19: conn.rollback() brings the connection back to the last commit
rollback_nothing(working, committed) == working
rollback(working, committed) == committed

\* lines 27-40: transfer(conn, from_id, to_id, amount).  fault tells whether
\* the statement after the first UPDATE raises.
transfer(from_id, to_id, amount, fault) ==
    LET pre == [db |-> db, committed |-> db_committed]
        args == [from_id |-> from_id, to_id |-> to_id, amount |-> amount, fault |-> fault]
        from_bal == select_balance(db, from_id)
        to_bal == select_balance(db, to_id)
        debited == update_balance(db, from_id, -amount)
        credited == update_balance(debited, to_id, amount)
    IN /\ IF amount <= 0
          THEN \* lines 28-29: raised before the transaction starts
               /\ tr_last' = [kind |-> "ValueError: amount must be > 0", args |-> args, pre |-> pre]
               /\ UNCHANGED <<db, db_committed>>
          ELSE IF from_bal = None \/ to_bal = None
          THEN \* lines 34-35, then lines 18-20
               /\ tr_last' = [kind |-> "ValueError: account not found", args |-> args, pre |-> pre]
               /\ db' = rollback(db, db_committed)
               /\ UNCHANGED db_committed
          ELSE IF from_bal < amount
          THEN \* lines 36-37, then lines 18-20
               /\ tr_last' = [kind |-> "ValueError: insufficient funds", args |-> args, pre |-> pre]
               /\ db' = rollback(db, db_committed)
               /\ UNCHANGED db_committed
          ELSE IF fault
          THEN \* line 39 done, line 40 raises, then lines 18-20
               /\ tr_last' = [kind |-> "Exception", args |-> args, pre |-> pre]
               /\ db' = rollback(debited, db_committed)
               /\ UNCHANGED db_committed
          ELSE \* lines 39-40, then line 17: conn.commit()
               /\ tr_last' = [kind |-> "returned", args |-> args, pre |-> pre]
               /\ db' = credited
               /\ db_committed' = credited
       /\ UNCHANGED <<clock, cbVars, tbVars, rVars, poVars, restVars>>

(***************************************************************************)
(* BankAccount                                                             *)
(***************************************************************************)
\* round(n / d) for d > 0: Python 3 rounds to the nearest integer, a tie
\* goes to the even one
RoundHalfEven(n, d) ==
    LET q == n \div d
        r == n % d
    IN IF 2 * r < d THEN q
       ELSE IF 2 * r > d THEN q + 1
       ELSE IF q % 2 = 0 THEN q ELSE q + 1

\* lines 25, 30: int(round(amount * 100)), the amount given in half cents
cents_of(half_cents) == RoundHalfEven(half_cents, 2)

\* line 31: cents > self._balance_cents
insufficient_flipped(cents, balance) == cents < balance
insufficient(cents, balance) == cents > balance

BAIdle ==
    /\ balance_cents = 0
    /\ ba_status = "off"
    /\ ba_last = [kind |-> "none"]

BAInit ==
    /\ balance_cents = 0
    /\ ba_status = "unbuilt"
    /\ ba_last = [kind |-> "none"]

\* lines 12-16: BankAccount(cents): the field is set, then __post_init__ checks it
BankAccount_new(cents) ==
    /\ ba_status = "unbuilt"
    /\ balance_cents' = cents
    /\ ba_status' = IF cents < 0 THEN "ValueError" ELSE "live"
    /\ UNCHANGED ba_last
    /\ UNCHANGED <<clock, cbVars, tbVars, rVars, poVars, trVars, ctVars, ffVars, fmVars, tsVars, paVars>>

\* lines 22-25: deposit(amount)
deposit(half_cents) ==
    /\ ba_status = "live"
    /\ balance_cents + cents_of(half_cents) <= MaxCents
    /\ IF half_cents <= 0
       THEN /\ ba_last' = [kind |-> "ValueError", op |-> "deposit", cents |-> 0]
            /\ UNCHANGED balance_cents
       ELSE /\ balance_cents' = balance_cents + cents_of(half_cents)
            /\ ba_last' = [kind |-> "returned", op |-> "deposit",
                           cents |-> cents_of(half_cents)]
    /\ UNCHANGED ba_status
    /\ UNCHANGED <<clock, cbVars, tbVars, rVars, poVars, trVars, ctVars, ffVars, fmVars, tsVars, paVars>>

\* lines 27-33: withdraw(amount)
withdraw(half_cents) ==
    /\ ba_status = "live"
    /\ IF half_cents <= 0
       THEN /\ ba_last' = [kind |-> "ValueError", op |-> "withdraw", cents |-> 0]
            /\ UNCHANGED balance_cents
       ELSE IF insufficient(cents_of(half_cents), balance_cents)
       THEN /\ ba_last' = [kind |-> "ValueError", op |-> "withdraw",
                           cents |-> cents_of(half_cents)]
            /\ UNCHANGED balance_cents
       ELSE /\ balance_cents' = balance_cents - cents_of(half_cents)
            /\ ba_last' = [kind |-> "returned", op |-> "withdraw",
                           cents |-> cents_of(half_cents)]
    /\ UNCHANGED ba_status
    /\ UNCHANGED <<clock, cbVars, tbVars, rVars, poVars, trVars, ctVars, ffVars, fmVars, tsVars, paVars>>

(***************************************************************************)
(* calculate_total                                                         *)
(***************************************************************************)
\* line 24: item.qty <= 0
qty_invalid_strict(qty) == qty < 0
qty_invalid(qty) == qty <= 0

\* lines 20-27: calculate_total(item, tax); the total is in cents:
\* round(price * qty * (1 + tax), 2)
calculate_total_result(item, tax) ==
    IF tax < 0
    THEN [kind |-> "ValueError", message |-> "tax must be >= 0", total |-> 0]
    ELSE IF item.price < 0
    THEN [kind |-> "ValueError", message |-> "price must be >= 0", total |-> 0]
    ELSE IF qty_invalid(item.qty)
    THEN [kind |-> "ValueError", message |-> "qty must be > 0", total |-> 0]
    ELSE [kind |-> "returned", message |-> "",
          total |-> RoundHalfEven(item.price * item.qty * (100 + tax), 100)]

CTIdle ==
    /\ ct_item = [price |-> 0, qty |-> 0]
    /\ ct_tax = 0
    /\ ct_out = [kind |-> "off"]

\* the arguments of a call about to be made
CTInit ==
    /\ ct_item \in [price : (-1)..MaxPriceCents, qty : (-1)..MaxQty]
    /\ ct_tax \in (-1)..MaxTaxPercent
    /\ ct_out = [kind |-> "none"]

calculate_total ==
    /\ ct_out.kind = "none"
    /\ ct_out' = calculate_total_result(ct_item, ct_tax)
    /\ UNCHANGED <<ct_item, ct_tax>>
    /\ UNCHANGED <<clock, cbVars, tbVars, rVars, poVars, trVars, baVars, ffVars, fmVars, tsVars, paVars>>

(***************************************************************************)
(* is_enabled: feature flag with percentage rollout                        *)
(***************************************************************************)
\* the values of digest[0], one byte of the SHA-256 digest
ByteValues == 0..255

\* line 29: rollout_percent >= 100 enables everybody
FullRollout == 100
\* line 36: digest[0] % 100
NumBuckets == 100

\* line 36: bucket = digest[0] % 100
bucket_of(byte) == byte % NumBuckets

\* lines 26-37: is_enabled(flag, subject_id); byte is digest[0] of the
\* SHA-256 hash of "name:subject_id"
is_enabled(flag, byte) ==
    IF ~flag.enabled THEN FALSE
    ELSE IF flag.rollout_percent >= FullRollout THEN TRUE
    ELSE IF flag.rollout_percent <= 0 THEN FALSE
    ELSE bucket_of(byte) < flag.rollout_percent

FFIdle ==
    /\ ff_flag = [enabled |-> FALSE, rollout_percent |-> 0]
    /\ ff_last = [kind |-> "off"]

\* lines 19-23: FeatureFlag(name, enabled, rollout_percent)
FFInit ==
    /\ ff_flag \in [enabled : BOOLEAN, rollout_percent : (-1)..MaxPercent]
    /\ ff_last = [kind |-> "none"]

\* one evaluation of is_enabled for a subject whose hash starts with byte
evaluate_flag(byte) ==
    /\ ff_last.kind = "none"
    /\ ff_last' = [kind |-> "returned", byte |-> byte, ret |-> is_enabled(ff_flag, byte)]
    /\ UNCHANGED ff_flag
    /\ UNCHANGED <<clock, cbVars, tbVars, rVars, poVars, trVars, baVars, ctVars, fmVars, tsVars, paVars>>

(***************************************************************************)
(* fetch_many on a ThreadPoolExecutor                                      *)
(***************************************************************************)
\* line 19: ThreadPoolExecutor(max_workers=4)
max_workers_five == 5
max_workers == 4

\* lines 11-14: fetch_profile(user_id) returns f"user-{user_id}"
fetch_profile_same(user_id) == <<"user-", 0>>
fetch_profile(user_id) == <<"user-", user_id>>

Submitted == DOMAIN fm_future
Running == {i \in Submitted : fm_future[i] = "running"}
Queued == {i \in Submitted : fm_future[i] = "queued"}
Done == {i \in Submitted : fm_future[i] = "done"}

FMIdle ==
    /\ fm_user_ids = <<>>
    /\ fm_pc = "off"
    /\ fm_future = <<>>
    /\ fm_value = <<>>
    /\ fm_early = {}
    /\ fm_notified = <<>>
    /\ fm_results = <<>>
    /\ fm_ret = <<>>
    /\ fm_completion = <<>>
    /\ fm_yielded = <<>>
    /\ fm_first = {}

\* lines 17-19: fetch_many(user_ids) entered, results = [], the pool created
FMInit ==
    /\ fm_user_ids \in {[i \in 1..n |-> i] : n \in 0..NumUsers}
    /\ fm_pc = "submit"
    /\ fm_future = <<>>
    /\ fm_value = <<>>
    /\ fm_early = {}
    /\ fm_notified = <<>>
    /\ fm_results = <<>>
    /\ fm_ret = <<>>
    /\ fm_completion = <<>>
    /\ fm_yielded = <<>>
    /\ fm_first = {}

\* line 20: pool.submit(fetch_profile, user_id) for the next user id: the
\* work item is queued
fm_submit ==
    /\ fm_pc = "submit"
    /\ Len(fm_future) < Len(fm_user_ids)
    /\ fm_future' = Append(fm_future, "queued")
    /\ fm_value' = Append(fm_value, <<>>)
    /\ UNCHANGED <<fm_user_ids, fm_pc, fm_early, fm_notified, fm_results, fm_ret,
                   fm_completion, fm_yielded, fm_first>>
    /\ UNCHANGED <<clock, cbVars, tbVars, rVars, poVars, trVars, baVars, ctVars, ffVars, tsVars, paVars>>

\* line 19: the pool has at most max_workers threads; a free one takes the
\* oldest queued work item and calls fetch_profile
fm_worker_start(i) ==
    /\ i \in Queued
    /\ \A j \in Queued : i <= j
    /\ Cardinality(Running) < max_workers
    /\ fm_future' = [fm_future EXCEPT ![i] = "running"]
    /\ UNCHANGED <<fm_user_ids, fm_pc, fm_value, fm_early, fm_notified, fm_results,
                   fm_ret, fm_completion, fm_yielded, fm_first>>
    /\ UNCHANGED <<clock, cbVars, tbVars, rVars, poVars, trVars, baVars, ctVars, ffVars, tsVars, paVars>>

\* lines 11-14: fetch_profile returns in its worker; the future gets the
\* result and, when as_completed is waiting, its waiter is told
fm_worker_finish(i) ==
    /\ i \in Running
    /\ fm_future' = [fm_future EXCEPT ![i] = "done"]
    /\ fm_value' = [fm_value EXCEPT ![i] = fetch_profile(fm_user_ids[i])]
    /\ fm_completion' = Append(fm_completion, i)
    /\ fm_notified' = IF fm_pc = "collect" THEN Append(fm_notified, i) ELSE fm_notified
    /\ UNCHANGED <<fm_user_ids, fm_pc, fm_early, fm_results, fm_ret, fm_yielded, fm_first>>
    /\ UNCHANGED <<clock, cbVars, tbVars, rVars, poVars, trVars, baVars, ctVars, ffVars, tsVars, paVars>>

\* line 21: as_completed(futures) starts: the futures that are finished by
\* now are set aside to be yielded first, a waiter is put on the others
fm_as_completed ==
    /\ fm_pc = "submit"
    /\ Len(fm_future) = Len(fm_user_ids)
    /\ fm_pc' = "collect"
    /\ fm_early' = Done
    /\ fm_first' = Done
    /\ UNCHANGED <<fm_user_ids, fm_future, fm_value, fm_notified, fm_results, fm_ret,
                   fm_completion, fm_yielded>>
    /\ UNCHANGED <<clock, cbVars, tbVars, rVars, poVars, trVars, baVars, ctVars, ffVars, tsVars, paVars>>

\* lines 21-22: as_completed yields one of the futures that were finished
\* when it started (they are kept in a set: any of them), and its result
\* is appended
fm_collect_early(i) ==
    /\ fm_pc = "collect"
    /\ i \in fm_early
    /\ fm_early' = fm_early \ {i}
    /\ fm_results' = Append(fm_results, fm_value[i])
    /\ fm_yielded' = Append(fm_yielded, i)
    /\ UNCHANGED <<fm_user_ids, fm_pc, fm_future, fm_value, fm_notified, fm_ret,
                   fm_completion, fm_first>>
    /\ UNCHANGED <<clock, cbVars, tbVars, rVars, poVars, trVars, baVars, ctVars, ffVars, tsVars, paVars>>

\* lines 21-22: after those, as_completed yields the futures its waiter was
\* told about, oldest first, and the result is appended
fm_collect_notified ==
    /\ fm_pc = "collect"
    /\ fm_early = {}
    /\ fm_notified # <<>>
    /\ fm_notified' = Tail(fm_notified)
    /\ fm_results' = Append(fm_results, fm_value[Head(fm_notified)])
    /\ fm_yielded' = Append(fm_yielded, Head(fm_notified))
    /\ UNCHANGED <<fm_user_ids, fm_pc, fm_future, fm_value, fm_early, fm_ret,
                   fm_completion, fm_first>>
    /\ UNCHANGED <<clock, cbVars, tbVars, rVars, poVars, trVars, baVars, ctVars, ffVars, tsVars, paVars>>

\* line 21: every future has been yielded, the loop ends
fm_loop_end ==
    /\ fm_pc = "collect"
    /\ Len(fm_yielded) = Len(fm_user_ids)
    /\ fm_pc' = "shutdown"
    /\ UNCHANGED <<fm_user_ids, fm_future, fm_value, fm_early, fm_notified, fm_results,
                   fm_ret, fm_completion, fm_yielded, fm_first>>
    /\ UNCHANGED <<clock, cbVars, tbVars, rVars, poVars, trVars, baVars, ctVars, ffVars, tsVars, paVars>>

\* lines 19, 23: leaving the with block waits for the workers
\* (shutdown(wait=True)), then results is returned
fm_return ==
    /\ fm_pc = "shutdown"
    /\ Running = {}
    /\ Queued = {}
    /\ fm_pc' = "returned"
    /\ fm_ret' = fm_results
    /\ UNCHANGED <<fm_user_ids, fm_future, fm_value, fm_early, fm_notified, fm_results,
                   fm_completion, fm_yielded, fm_first>>
    /\ UNCHANGED <<clock, cbVars, tbVars, rVars, poVars, trVars, baVars, ctVars, ffVars, tsVars, paVars>>

(***************************************************************************)
(* time_split                                                              *)
(***************************************************************************)
\* Timestamps are days of the year 2026 (the index is daily, line 19).
DaysBeforeMonth == <<0, 31>>

\* line 12: pd.Timestamp(split_date): the date string as a timestamp
Timestamp(date) == DaysBeforeMonth[date.month] + date.day

\* the dates and index values used: 30 January .. 3 February
SplitDates ==
    {[month |-> 1, day |-> d] : d \in 30..31} \cup {[month |-> 2, day |-> d] : d \in 1..3}
IndexDays == 30..34
Rets == {-2, 1}

\* lines 13-14: the boolean masks df.index < split_ts and df.index >= split_ts
in_train_inclusive(index, split_ts) == index <= split_ts
in_train(index, split_ts) == index < split_ts
in_test(index, split_ts) == index >= split_ts

train_mask(frame, split_ts) ==
    [k \in 1..Len(frame) |-> in_train(frame[k].index, split_ts)]
test_mask(frame, split_ts) ==
    [k \in 1..Len(frame) |-> in_test(frame[k].index, split_ts)]

\* df.loc[mask].copy(): the rows of df at which mask is True, from position
\* pos on, in their order, each with its position in df
RECURSIVE LocRows(_, _, _)
LocRows(frame, mask, pos) ==
    IF pos > Len(frame) THEN <<>>
    ELSE (IF mask[pos]
          THEN << [pos |-> pos, index |-> frame[pos].index, ret |-> frame[pos].ret] >>
          ELSE <<>>)
         \o LocRows(frame, mask, pos + 1)

TSIdle ==
    /\ ts_df = <<>>
    /\ ts_split_date = [month |-> 1, day |-> 30]
    /\ ts_train = <<>>
    /\ ts_test = <<>>
    /\ ts_pc = "off"
    /\ ts_df_before = <<>>

\* a frame with a timestamp index (in any order, repeats allowed) and a date
TSInit ==
    /\ ts_df \in UNION {[1..n -> [index : IndexDays, ret : Rets]] : n \in 0..MaxRows}
    /\ ts_split_date \in SplitDates
    /\ ts_train = <<>>
    /\ ts_test = <<>>
    /\ ts_pc = "ready"
    /\ ts_df_before = ts_df

\* lines 11-15: time_split(df, split_date)
time_split ==
    /\ ts_pc = "ready"
    /\ LET split_ts == Timestamp(ts_split_date)
       IN /\ ts_train' = LocRows(ts_df, train_mask(ts_df, split_ts), 1)
          /\ ts_test' = LocRows(ts_df, test_mask(ts_df, split_ts), 1)
    /\ ts_pc' = "returned"
    /\ UNCHANGED <<ts_df, ts_split_date, ts_df_before>>
    /\ UNCHANGED <<clock, cbVars, tbVars, rVars, poVars, trVars, baVars, ctVars, ffVars, fmVars, paVars>>

(***************************************************************************)
(* price_all with asyncio.gather                                           *)
(***************************************************************************)
\* A sku is its first character followed by the rest of the string.
Skus == {<<c, rest>> : c \in {"A", "B"}, rest \in {"-BOOK", "-PEN"}}
BasePrices == {500, 2000}
NoPair == <<>>

\* line 22: sku.startswith("A")
startswith_A(sku) == Len(sku) > 0 /\ sku[1] = "A"

\* lines 19-22: fetch_discount(sku), in percent: 0.1 if the sku starts with
\* "A", else 0.05
fetch_discount_flat(sku) == 5
fetch_discount(sku) == IF startswith_A(sku) THEN 10 ELSE 5

\* line 27: round(product.base_price * (1 - discount), 2), in cents
final_price(base_price, discount) == RoundHalfEven(base_price * (100 - discount), 100)

\* line 34: dict(pairs): one entry per key, a later pair replaces an earlier one
RECURSIVE dict(_)
dict(pairs) ==
    IF pairs = <<>> THEN <<>>
    ELSE LET n == Len(pairs)
             before == dict(SubSeq(pairs, 1, n - 1))
             key == pairs[n][1]
         IN [k \in DOMAIN before \cup {key} |-> IF k = key THEN pairs[n][2] ELSE before[k]]

PAIdle ==
    /\ pa_products = <<>>
    /\ pa_task = <<>>
    /\ pa_pairs = <<>>
    /\ pa_pc = "off"
    /\ pa_ret = <<>>
    /\ pa_completion = <<>>

\* lines 31-33: price_all(products) entered with products of distinct skus,
\* one coroutine created per product and handed to gather
PAInit ==
    /\ pa_products \in
          {ps \in UNION {[1..n -> [sku : Skus, base_price : BasePrices]] : n \in 0..NumProducts} :
              \A i, j \in DOMAIN ps : i # j => ps[i].sku # ps[j].sku}
    /\ pa_task = [i \in DOMAIN pa_products |-> "created"]
    /\ pa_pairs = [i \in DOMAIN pa_products |-> NoPair]
    /\ pa_pc = "gather"
    /\ pa_ret = <<>>
    /\ pa_completion = <<>>

\* lines 25-26 and 19-21: the event loop runs the next task up to its await
\* of fetch_discount, which sleeps
pa_task_start(i) ==
    /\ pa_pc = "gather"
    /\ i \in DOMAIN pa_task
    /\ pa_task[i] = "created"
    /\ \A j \in DOMAIN pa_task : pa_task[j] = "created" => i <= j
    /\ pa_task' = [pa_task EXCEPT ![i] = "awaiting"]
    /\ UNCHANGED <<pa_products, pa_pairs, pa_pc, pa_ret, pa_completion>>
    /\ UNCHANGED <<clock, cbVars, tbVars, rVars, poVars, trVars, baVars, ctVars, ffVars, fmVars, tsVars>>

\* lines 22 and 26-28: fetch_discount of task i completes, the task computes
\* its pair and ends; gather keeps the pair at the position of the task
pa_task_done(i) ==
    /\ pa_pc = "gather"
    /\ i \in DOMAIN pa_task
    /\ pa_task[i] = "awaiting"
    /\ LET product == pa_products[i]
           discount == fetch_discount(product.sku)
       IN pa_pairs' = [pa_pairs EXCEPT
                          ![i] = <<product.sku, final_price(product.base_price, discount)>>]
    /\ pa_task' = [pa_task EXCEPT ![i] = "done"]
    /\ pa_completion' = Append(pa_completion, i)
    /\ UNCHANGED <<pa_products, pa_pc, pa_ret>>
    /\ UNCHANGED <<clock, cbVars, tbVars, rVars, poVars, trVars, baVars, ctVars, ffVars, fmVars, tsVars>>

\* lines 33-34: every task is done, gather returns the pairs and price_all
\* returns dict(pairs)
pa_return ==
    /\ pa_pc = "gather"
    /\ \A i \in DOMAIN pa_task : pa_task[i] = "done"
    /\ pa_ret' = dict(pa_pairs)
    /\ pa_pc' = "returned"
    /\ UNCHANGED <<pa_products, pa_task, pa_pairs, pa_completion>>
    /\ UNCHANGED <<clock, cbVars, tbVars, rVars, poVars, trVars, baVars, ctVars, ffVars, fmVars, tsVars>>

(***************************************************************************)
(* Specifications                                                          *)
(***************************************************************************)
\* the scripts below, idle
RestIdle == BAIdle /\ CTIdle /\ FFIdle /\ FMIdle /\ TSIdle /\ PAIdle
\* the scripts above, idle
FirstIdle == clock = 0 /\ CBIdle /\ TBIdle /\ RIdle /\ POIdle /\ TRIdle

InitCB == clock = 0 /\ CBInit /\ TBIdle /\ RIdle /\ POIdle /\ TRIdle /\ RestIdle
NextCB ==
    \/ Tick
    \/ \E res \in Values \cup {"raise"}, dur \in 0..MaxFuncDur : call(res, dur)
SpecCB == InitCB /\ [][NextCB]_vars

InitTB == clock = 0 /\ CBIdle /\ TBInit /\ RIdle /\ POIdle /\ TRIdle /\ RestIdle
NextTB ==
    \/ Tick
    \/ \E cost \in 1..MaxCost : allow(cost)
SpecTB == InitTB /\ [][NextTB]_vars

InitRetry == clock = 0 /\ CBIdle /\ TBIdle /\ RInit /\ POIdle /\ TRIdle /\ RestIdle
NextRetry ==
    \/ with_retries_enter
    \/ \E res \in FuncOutcomes, j \in 0..MaxMaxDelay : with_retries_attempt(res, j)
SpecRetry == InitRetry /\ [][NextRetry]_vars

\* process_order called again and again on one connection
InitIdemSeq == clock = 0 /\ CBIdle /\ TBIdle /\ RIdle /\ POInit /\ TRIdle /\ RestIdle
NextIdemSeq == \E k \in Keys, o \in OrderIds : process_order(k, o)
SpecIdemSeq == InitIdemSeq /\ [][NextIdemSeq]_vars

\* process_order calls of several callers interleaving on one database
InitIdem == clock = 0 /\ CBIdle /\ TBIdle /\ RIdle /\ POInit /\ TRIdle /\ RestIdle
NextIdem ==
    \/ \E p \in Callers, k \in Keys, o \in OrderIds : po_lookup(p, k, o)
    \/ \E p \in Callers : po_side_effect(p)
    \/ \E p \in Callers : po_store(p)
SpecIdem == InitIdem /\ [][NextIdem]_vars

InitTransfer == clock = 0 /\ CBIdle /\ TBIdle /\ RIdle /\ POIdle /\ TRInit /\ RestIdle
NextTransfer ==
    \E f \in PassedIds, t \in PassedIds, amount \in (-1)..MaxAmount, fault \in BOOLEAN :
        transfer(f, t, amount, fault)
SpecTransfer == InitTransfer /\ [][NextTransfer]_vars

InitBank == FirstIdle /\ BAInit /\ CTIdle /\ FFIdle /\ FMIdle /\ TSIdle /\ PAIdle
NextBank ==
    \/ \E cents \in (-1)..MaxInitialCents : BankAccount_new(cents)
    \/ \E h \in (-1)..MaxHalfCents : deposit(h)
    \/ \E h \in (-1)..MaxHalfCents : withdraw(h)
SpecBank == InitBank /\ [][NextBank]_vars

InitTotal == FirstIdle /\ BAIdle /\ CTInit /\ FFIdle /\ FMIdle /\ TSIdle /\ PAIdle
NextTotal == calculate_total
SpecTotal == InitTotal /\ [][NextTotal]_vars

InitFlag == FirstIdle /\ BAIdle /\ CTIdle /\ FFInit /\ FMIdle /\ TSIdle /\ PAIdle
NextFlag == \E byte \in ByteValues : evaluate_flag(byte)
SpecFlag == InitFlag /\ [][NextFlag]_vars

InitFetch == FirstIdle /\ BAIdle /\ CTIdle /\ FFIdle /\ FMInit /\ TSIdle /\ PAIdle
NextFetch ==
    \/ fm_submit
    \/ \E i \in 1..NumUsers : fm_worker_start(i)
    \/ \E i \in 1..NumUsers : fm_worker_finish(i)
    \/ fm_as_completed
    \/ \E i \in 1..NumUsers : fm_collect_early(i)
    \/ fm_collect_notified
    \/ fm_loop_end
    \/ fm_return
SpecFetch == InitFetch /\ [][NextFetch]_vars

InitSplit == FirstIdle /\ BAIdle /\ CTIdle /\ FFIdle /\ FMIdle /\ TSInit /\ PAIdle
NextSplit == time_split
SpecSplit == InitSplit /\ [][NextSplit]_vars

InitPrice == FirstIdle /\ BAIdle /\ CTIdle /\ FFIdle /\ FMIdle /\ TSIdle /\ PAInit
NextPrice ==
    \/ \E i \in 1..NumProducts : pa_task_start(i)
    \/ \E i \in 1..NumProducts : pa_task_done(i)
    \/ pa_return
SpecPrice == InitPrice /\ [][NextPrice]_vars

(***************************************************************************)
(* Properties of CircuitBreaker, checked under SpecCB                      *)
(***************************************************************************)
CBCalled == cb_last.kind # "none"

\* C1: the circuit opens after the threshold: once failure_threshold calls
\* in a row have raised the circuit is open, and a call() made less than
\* cooldown_s after the opening raises CircuitOpenError without invoking
\* func and leaves the failure count and the opening time unchanged.
C1_OpensAfterThreshold ==
    /\ streak >= failure_threshold => opened_at # None
    /\ (/\ CBCalled
        /\ cb_last.pre.opened_at # None
        /\ cb_last.pre.now - cb_last.pre.opened_at < cooldown_s)
       => /\ cb_last.kind = "CircuitOpenError"
          /\ ~cb_last.invoked
          /\ failures = cb_last.pre.failures
          /\ opened_at = cb_last.pre.opened_at

\* C1 witness: with a threshold of at least 2, the circuit opened and a call
\* made within the cooldown was rejected.
C1_Witness ==
    /\ failure_threshold >= 2
    /\ streak >= failure_threshold
    /\ cb_last.kind = "CircuitOpenError"
    /\ cb_last.pre.now - cb_last.pre.opened_at < cooldown_s

C3_HalfOpenProbe ==
    (/\ CBCalled
     /\ cb_last.pre.opened_at # None
     /\ cb_last.pre.now - cb_last.pre.opened_at >= cooldown_s)
    => /\ cb_last.invoked
       /\ cb_last.kind = "returned"
          => /\ cb_last.value = cb_last.func
             /\ cb_last.value \in Values
             /\ opened_at = None
             /\ failures = 0

\* C3 witness: a probe after a positive cooldown returned.
C3_Witness ==
    /\ cooldown_s > 0
    /\ cb_last.kind = "returned"
    /\ cb_last.pre.opened_at # None
    /\ cb_last.pre.now - cb_last.pre.opened_at >= cooldown_s

\* C17 (as claimed, SpecCB): a failed half-open probe re-opens the circuit:
\* when the call admitted after the cooldown raises, the circuit is open
\* again at once, and the call following it within cooldown_s raises
\* CircuitOpenError without invoking func, whatever failure_threshold is.
C17_FailedProbeReopens ==
    /\ (cb_last.kind = "raised" /\ cb_last.pre.opened_at # None) => opened_at # None
    /\ (/\ CBCalled
        /\ cb_last.pre.probe_failed_at # None
        /\ cb_last.pre.now - cb_last.pre.probe_failed_at < cooldown_s)
       => /\ cb_last.kind = "CircuitOpenError"
          /\ ~cb_last.invoked

(***************************************************************************)
(* Properties of TokenBucket, checked under SpecTB                         *)
(***************************************************************************)
\* C4: the admitted rate is limited: at every time t from the latest
\* allow() on, the total cost of the calls that returned True is at most
\* capacity + refill_rate_per_s * (t - t0), t0 the time of the first allow().
C4_RateLimited ==
    t0 # None =>
        \A t \in last..clock :
            admitted <= capacity + refill_rate_per_s * (t - t0)

\* C4 witness: more than the capacity has been admitted (tokens were
\* refilled and spent) and the latest call was refused.
C4_Witness ==
    /\ t0 # None
    /\ admitted > capacity
    /\ tb_last.kind = "allow"
    /\ ~tb_last.ret

(***************************************************************************)
(* Properties of with_retries, checked under SpecRetry                     *)
(***************************************************************************)
Calls == {i \in 1..Len(r_log) : r_log[i][1] = "call"}
Sleeps == {i \in 1..Len(r_log) : r_log[i][1] = "sleep"}

\* C5: attempts are capped: for attempts >= 1 func is invoked at most
\* attempts times, and an invocation that returns is the last thing
\* with_retries does: it returns that value, with no further invocation and
\* no sleep.
C5_AttemptsCapped ==
    attempts >= 1 =>
        /\ Cardinality(Calls) <= attempts
        /\ \A i \in Calls :
              r_log[i][2] \in Values
              => /\ i = Len(r_log)
                 /\ r_status = "returned"
                 /\ r_ret = r_log[i][2]

\* C5 witness: the last allowed attempt returned, after retries.
C5_Witness ==
    /\ attempts >= 2
    /\ Cardinality(Calls) = attempts
    /\ r_status = "returned"

\* C6: only transient errors are retried: an invocation that raises
\* PermanentError, or any exception that is not a TransientError, is the last
\* thing with_retries does: that exception reaches the caller, with no
\* further invocation and no sleep, on whichever attempt it occurs.
C6_OnlyTransientRetried ==
    \A i \in Calls :
        r_log[i][2] \in {"PermanentError", "OtherError"}
        => /\ i = Len(r_log)
           /\ r_status = r_log[i][2]

\* C6 witness: an exception of another class raised on a retry.
C6_Witness ==
    /\ r_status = "OtherError"
    /\ Cardinality(Calls) >= 2

\* C7 (as claimed): every delay slept before a retry is at most max_delay.
C7_DelayAtMostMax ==
    \A i \in Sleeps : r_log[i][2] <= max_delay

(***************************************************************************)
(* Properties of process_order                                             *)
(***************************************************************************)
\* C8 (SpecIdemSeq): process_order is idempotent per key: the first call
\* with a key stores its Result, every later call with that key returns that
\* Result, whatever its order_id, and writes nothing; no call raises; the
\* table never holds two rows with one key.
C8_IdempotentPerKey ==
    /\ \A r1, r2 \in idem_table : r1.key = r2.key => r1 = r2
    /\ \A k \in Keys :
          first_result[k] # NoResult
          => [key |-> k, ok |-> 1, message |-> first_result[k].message] \in idem_table
    /\ po_last.kind # "none"
       => /\ po_last.kind = "returned"
          /\ po_last.ret = first_result[po_last.key]
          /\ po_last.pre.seen => idem_table = po_last.pre.table

\* C8 witness: a later call with a stored key and another order_id returned
\* the Result of the first call.
C8_Witness ==
    /\ po_last.kind = "returned"
    /\ po_last.pre.seen
    /\ po_last.ret # MakeResult(po_last.order_id)
    /\ po_last.ret = first_result[po_last.key]

\* C9 (as claimed, SpecIdem): when calls with one key interleave, the order's
\* side effect is performed at most once, no call raises, and the calls
\* return the same Result.
C9_NoDoubleProcessing ==
    /\ \A k \in Keys : side_effects[k] <= 1
    /\ \A p \in Callers : po_pc[p] # "IntegrityError"
    /\ \A p, q \in Callers :
          (po_pc[p] = "returned" /\ po_pc[q] = "returned"
              /\ po_args[p].key = po_args[q].key)
          => po_ret[p] = po_ret[q]

(***************************************************************************)
(* Properties of transfer, checked under SpecTransfer                      *)
(***************************************************************************)
TransferRefused(args, accounts) ==
    \/ args.amount <= 0
    \/ args.from_id \notin DOMAIN accounts
    \/ args.to_id \notin DOMAIN accounts
    \/ accounts[args.from_id] < args.amount
    \/ args.fault

\* C10: transfer is all-or-nothing: a call either returns with the debit of
\* from_id and the credit of to_id both applied and committed, or raises
\* (amount <= 0, unknown account, insufficient funds, a failure between the
\* two updates) and leaves the database as it was before the call.
C10_AllOrNothing ==
    tr_last.kind # "none" =>
        LET a == tr_last.args
            before == tr_last.pre.db
        IN IF TransferRefused(a, before)
           THEN /\ tr_last.kind # "returned"
                /\ db = before
                /\ db_committed = tr_last.pre.committed
           ELSE /\ tr_last.kind = "returned"
                /\ db = [x \in DOMAIN before |->
                            before[x] - (IF x = a.from_id THEN a.amount ELSE 0)
                                      + (IF x = a.to_id THEN a.amount ELSE 0)]
                /\ db_committed = db

\* C10 witness: a transfer between two accounts with sufficient funds failed
\* after the debit.
C10_Witness ==
    /\ tr_last.kind = "Exception"
    /\ tr_last.args.from_id # tr_last.args.to_id
    /\ tr_last.pre.db[tr_last.args.from_id] >= tr_last.args.amount

(***************************************************************************)
(* Properties of BankAccount, checked under SpecBank                       *)
(***************************************************************************)
\* C11: BankAccount protects its invariant: once it is constructed, and
\* after any deposit and withdraw calls, returned or refused with ValueError,
\* the stored balance in cents is >= 0.
C11_BalanceNonNegative ==
    ba_status = "live" => balance_cents >= 0

\* C11 witness: a withdrawal of a positive number of cents emptied the account.
C11_Witness ==
    /\ ba_status = "live"
    /\ ba_last.kind = "returned"
    /\ ba_last.op = "withdraw"
    /\ ba_last.cents > 0
    /\ balance_cents = 0

(***************************************************************************)
(* Properties of calculate_total, checked under SpecTotal                  *)
(***************************************************************************)
\* C12: calculate_total raises ValueError exactly when tax < 0,
\* item.price < 0 or item.qty <= 0, with the message of the first check
\* violated in the order tax, price, qty; for every other input it returns a
\* total and raises nothing.
C12_ValidationErrors ==
    ct_out.kind \notin {"none", "off"} =>
        LET expected ==
                IF ct_tax < 0 THEN "tax must be >= 0"
                ELSE IF ct_item.price < 0 THEN "price must be >= 0"
                ELSE IF ct_item.qty <= 0 THEN "qty must be > 0"
                ELSE "nothing"
        IN IF expected = "nothing"
           THEN ct_out.kind = "returned"
           ELSE ct_out.kind = "ValueError" /\ ct_out.message = expected

\* C12 witness: all three checks are violated and the tax message is raised.
C12_Witness ==
    /\ ct_tax < 0
    /\ ct_item.price < 0
    /\ ct_item.qty <= 0
    /\ ct_out.kind = "ValueError"
    /\ ct_out.message = "tax must be >= 0"

(***************************************************************************)
(* Properties of is_enabled, checked under SpecFlag                        *)
(***************************************************************************)
BytesOfBucket(b) == {byte \in ByteValues : bucket_of(byte) = b}
EnabledBytes == {byte \in ByteValues : is_enabled(ff_flag, byte)}

\* C14 (as claimed): for an enabled flag with 0 < rollout_percent < 100 the
\* bucket is uniform over 0..99 (every bucket comes from the same number of
\* the 256 values of the first digest byte), so exactly a
\* rollout_percent/100 share of the hash values is enabled.
C14_ProportionalRollout ==
    (/\ ff_last.kind = "returned"
     /\ ff_flag.enabled
     /\ 0 < ff_flag.rollout_percent
     /\ ff_flag.rollout_percent < 100)
    => /\ \A b \in 0..99 :
             Cardinality(BytesOfBucket(b)) = Cardinality(BytesOfBucket(0))
       /\ 100 * Cardinality(EnabledBytes)
             = ff_flag.rollout_percent * Cardinality(ByteValues)

(***************************************************************************)
(* Properties of fetch_many, checked under SpecFetch                       *)
(***************************************************************************)
\* C15: the concurrency level is controlled: at every moment of a call at
\* most 4 fetch_profile invocations are executing, however many user ids
\* were submitted.
C15_AtMostFourRunning ==
    Cardinality(Running) <= 4

\* C15 witness: four invocations are executing while a fifth user id waits.
C15_Witness ==
    /\ Cardinality(Running) = 4
    /\ Queued # {}

AllYieldedOnce ==
    /\ Len(fm_yielded) = Len(fm_user_ids)
    /\ {fm_yielded[k] : k \in 1..Len(fm_yielded)} = 1..Len(fm_user_ids)

ResultsOfYielded ==
    /\ Len(fm_ret) = Len(fm_yielded)
    /\ \A k \in 1..Len(fm_ret) : fm_ret[k] = <<"user-", fm_user_ids[fm_yielded[k]]>>

WorkersFinished ==
    /\ Len(fm_future) = Len(fm_user_ids)
    /\ \A i \in 1..Len(fm_future) : fm_future[i] = "done"

\* C18 (as claimed): under every interleaving fetch_many returns exactly one
\* result per submitted user id, the per-id results in completion order, and
\* returns only after every worker has finished.
C18_CompletionOrder ==
    fm_pc = "returned"
    => /\ AllYieldedOnce
       /\ ResultsOfYielded
       /\ fm_yielded = fm_completion
       /\ WorkersFinished

\* C18 (amended): under every interleaving fetch_many returns exactly one
\* result per submitted user id, a permutation of the per-id results: first
\* those of the futures that were finished when as_completed started, in any
\* order, then the others in completion order; it returns only after every
\* worker has finished.
C18_NothingLostOrDuplicated ==
    fm_pc = "returned"
    => /\ AllYieldedOnce
       /\ ResultsOfYielded
       /\ WorkersFinished
       /\ \A k \in 1..Len(fm_yielded) :
             k <= Cardinality(fm_first) <=> fm_yielded[k] \in fm_first
       /\ LET Late(i) == i \notin fm_first
          IN SelectSeq(fm_yielded, Late) = SelectSeq(fm_completion, Late)

\* C18 witness: fetch_many returned the results of five user ids in an order
\* that is neither the input order nor the completion order.
C18_Witness ==
    /\ fm_pc = "returned"
    /\ Len(fm_ret) >= 5
    /\ fm_yielded # fm_completion
    /\ fm_yielded # [i \in 1..Len(fm_user_ids) |-> i]

(***************************************************************************)
(* Properties of time_split, checked under SpecSplit                       *)
(***************************************************************************)
PositionsOf(frame) == {frame[k].pos : k \in 1..Len(frame)}

\* each row of the frame is a row of df, and no row is in it twice
RowsOfDf(frame) ==
    /\ Cardinality(PositionsOf(frame)) = Len(frame)
    /\ \A k \in 1..Len(frame) :
          /\ frame[k].pos \in 1..Len(ts_df)
          /\ frame[k].index = ts_df[frame[k].pos].index
          /\ frame[k].ret = ts_df[frame[k].pos].ret

\* C16: time_split splits by time with no leakage: train and test are
\* disjoint, together they hold every row of df exactly once, every train
\* index is strictly before split_date and every test index is at or after
\* it; df is not modified.
C16_SplitByTime ==
    ts_pc = "returned"
    => /\ RowsOfDf(ts_train)
       /\ RowsOfDf(ts_test)
       /\ PositionsOf(ts_train) \cap PositionsOf(ts_test) = {}
       /\ PositionsOf(ts_train) \cup PositionsOf(ts_test) = 1..Len(ts_df)
       /\ \A k \in 1..Len(ts_train) : ts_train[k].index < Timestamp(ts_split_date)
       /\ \A k \in 1..Len(ts_test) : ts_test[k].index >= Timestamp(ts_split_date)
       /\ ts_df = ts_df_before

\* C16 witness: a split with rows on both sides and a row dated split_date.
C16_Witness ==
    /\ ts_pc = "returned"
    /\ ts_train # <<>>
    /\ \E k \in 1..Len(ts_test) : ts_test[k].index = Timestamp(ts_split_date)

(***************************************************************************)
(* Properties of price_all, checked under SpecPrice                        *)
(***************************************************************************)
\* the price a product is to get: 10 percent off when its sku starts with
\* "A", 5 percent off otherwise, rounded to the cent
OwnPrice(product) ==
    RoundHalfEven(product.base_price * (IF product.sku[1] = "A" THEN 90 ELSE 95), 100)

\* C19: price_all is independent of the completion order: for products with
\* distinct skus it returns exactly one entry per product, mapping each sku
\* to that product's own discounted price, in whatever order the awaited
\* fetch_discount calls complete.
C19_OwnPricePerSku ==
    pa_pc = "returned"
    => /\ DOMAIN pa_ret = {pa_products[i].sku : i \in DOMAIN pa_products}
       /\ Cardinality(DOMAIN pa_ret) = Len(pa_products)
       /\ \A i \in DOMAIN pa_products :
             pa_ret[pa_products[i].sku] = OwnPrice(pa_products[i])

\* C19 witness: products of both discounts were priced and the calls
\* completed in another order than the products were given.
C19_Witness ==
    /\ pa_pc = "returned"
    /\ pa_completion # [i \in DOMAIN pa_products |-> i]
    /\ \E i, j \in DOMAIN pa_products :
          pa_products[i].sku[1] = "A" /\ pa_products[j].sku[1] = "B"

====
